---- MODULE Spec2Model ----
(***************************************************************************)
(* FileMind: the indexing pipeline (cli.scan / cli._process_file), the     *)
(* SQLite content store (database.py, repository.py) and the append-only   *)
(* vector index, modelled as one state machine.                            *)
(*                                                                         *)
(* Texts are sequences of one-character strings.  Similarity scores are    *)
(* integers scaled by 100 (0.60 is 60, the keyword boost 0.1 is 10).       *)
(***************************************************************************)
EXTENDS Integers, Sequences, FiniteSets, TLC

(* ------------------------------ bounds -------------------------------- *)

\* chunk_text's chunk_size and chunk_overlap, scaled down from the
\* defaults 1000 and 200 of extractor.py so that short texts yield 0, 1 or
\* 2 chunks.
ChunkSize == 5

ChunkOverlap == 1

\* number of times the environment rewrites a file between scans
MaxMods == 2

(* --------------------------- the environment -------------------------- *)

\* the scanned directory: two files with a supported extension and one
\* with an unsupported one
Paths == {"a.txt", "b.txt", "n.md"}

\* a document that scans of documents find beside the files of Paths
DocPaths == {"c.pdf"}

Suffix(p) ==
  IF p = "n.md" THEN ".md" ELSE IF p \in DocPaths THEN ".pdf" ELSE ".txt"

supported_extensions == {".pdf", ".docx", ".txt"}

SupportedPaths == {p \in Paths : Suffix(p) \in supported_extensions}

\* the texts a file may hold: empty, whitespace only, two one-chunk texts
\* and a text longer than ChunkSize whose two chunks share the word "a"
Texts ==
  { <<>>,
    <<" ">>,
    <<"b">>,
    <<"a", "b">>,
    <<"a", " ", " ", "a", "b", " ", "a">> }

\* the bytes of a file that is no well-formed document of its type
Damaged == <<"#">>

(* ------------------------- extractor.chunk_text ----------------------- *)

IsSpace(c) == c \in {" ", "\n"}

\* str.split(): the maximal runs of non-whitespace characters
RECURSIVE Split(_, _)
Split(s, word) ==
  IF s = <<>> THEN (IF word = <<>> THEN <<>> ELSE <<word>>)
  ELSE IF IsSpace(Head(s))
       THEN (IF word = <<>> THEN Split(Tail(s), <<>>)
             ELSE <<word>> \o Split(Tail(s), <<>>))
       ELSE Split(Tail(s), Append(word, Head(s)))

\* " ".join(words)
RECURSIVE Join(_)
Join(words) ==
  IF words = <<>> THEN <<>>
  ELSE IF Len(words) = 1 THEN words[1]
  ELSE words[1] \o <<" ">> \o Join(Tail(words))

Normalize(chunk) == Join(Split(chunk, <<>>))

Min(a, b) == IF a <= b THEN a ELSE b

\* text[start:end] with Python's clamping, start and end 0-based
Slice(text, start, end) == SubSeq(text, start + 1, Min(end, Len(text)))

\* the while loop of chunk_text, from position start (0-based)
RECURSIVE ChunkFrom(_, _, _, _)
ChunkFrom(text, start, chunk_size, chunk_overlap) ==
  IF start >= Len(text) THEN <<>>
  ELSE LET chunk == Normalize(Slice(text, start, start + chunk_size))
           next  == start + chunk_size - chunk_overlap
           rest  == IF next >= Len(text) THEN <<>>
                    ELSE ChunkFrom(text, next, chunk_size, chunk_overlap)
       IN  IF chunk # <<>> THEN <<chunk>> \o rest ELSE rest

chunk_text(text, chunk_size, chunk_overlap) ==
  IF text = <<>> THEN <<>> ELSE ChunkFrom(text, 0, chunk_size, chunk_overlap)

(* --------------------- collaborators of the pipeline ------------------ *)

\* embedder.generate_embeddings: one vector per text, in input order; the
\* vector is a function of the text alone
Embed(content) == [of |-> content]

generate_embeddings(texts) == [i \in 1..Len(texts) |-> Embed(texts[i])]

\* hasher.generate_file_hash: a digest of the file's bytes
generate_file_hash(text) == [sha256 |-> text]

(* ------------------------------ VectorStore --------------------------- *)

\* the append-only index, a sequence of vectors: position p (0-based) is
\* element p + 1.  vs.index.ntotal: the number of vectors
index_ntotal(index) == Len(index)

\* vs.add(embeddings): the batch is appended in its order
vs_add(index, embeddings) == index \o embeddings

(* ------------------------------- state -------------------------------- *)

VARIABLES
  fs,         \* path -> [text, mtime]: the files on disk
  modelOk,    \* model.onnx and tokenizer.json exist (filemind init has run)
  files,      \* table files
  chunks,     \* table chunks
  chunks_fts, \* virtual table chunks_fts, kept by the triggers
  vsDisk,     \* the saved FAISS index file: a sequence of vectors
  vsMem,      \* vs.index of the running scan
  pc,         \* position of the running command
  queue,      \* files of directory.rglob still to be processed
  cur,        \* locals of _process_file
  run,        \* facts about the running scan
  last,       \* facts about the last run of scan
  maxEver,    \* largest chunk id add_chunk ever returned
  out         \* what the last search or calculate_hybrid_scores returned

vars == <<fs, modelOk, files, chunks, chunks_fts, vsDisk,
          vsMem, pc, queue, cur, run, last, maxEver, out>>

(* ---------------------- database.py / repository.py ------------------- *)

MaxOf(S) == CHOOSE m \in S : \A x \in S : x <= m

\* the rowid SQLite gives a new row of a table declared with
\* id INTEGER PRIMARY KEY (no AUTOINCREMENT): one more than the largest
\* rowid currently in the table
NextRowid(ids) == IF ids = {} THEN 1 ELSE MaxOf(ids) + 1

FileIds == {f.id : f \in files}

ChunkIds == {c.id : c \in chunks}

\* repository.add_file: the id of the row it inserts
add_file_id == NextRowid(FileIds)

add_file_row(file_path, file_hash, file_size, mtime) ==
  [id |-> add_file_id, file_path |-> file_path, file_hash |-> file_hash,
   file_size |-> file_size, last_modified_time |-> mtime]

\* repository.get_file_by_path: the rows with that path
get_file_by_path(file_path) == {f \in files : f.file_path = file_path}

\* repository.add_chunk: the id of the row it inserts
add_chunk_id == NextRowid(ChunkIds)

add_chunk_row(file_id, chunk_index, content) ==
  [id |-> add_chunk_id, file_id |-> file_id, chunk_index |-> chunk_index,
   content |-> content]

\* repository.delete_file_and_chunks with foreign_keys = ON: the file row,
\* by ON DELETE CASCADE its chunk rows, by trigger chunks_after_delete
\* their rows of chunks_fts
\* a re-indexing that keeps the old record
files_after_delete_kept(file_id) == files

files_after_delete(file_id) == {f \in files : f.id # file_id}

\* a deletion without PRAGMA foreign_keys = ON: no cascade
chunks_after_delete_nocascade(file_id) == chunks

chunks_after_delete(file_id) == {c \in chunks : c.file_id # file_id}

\* a chunks table without the trigger chunks_after_delete
fts_after_delete_untouched(file_id) == chunks_fts

fts_after_delete(file_id) ==
  {r \in chunks_fts :
     \A c \in chunks : c.file_id = file_id => r.rowid # c.id}

(* ------------------------------ the scan ------------------------------ *)

\* the locals of _process_file; vs0 is the index as it was when the call
\* began, orphan whether a chunk row without a vector position existed
\* when the call reached step 8
NoCur == [path |-> "", file_id |-> 0, old_id |-> 0, i |-> 0,
          orphan |-> FALSE, vs0 |-> <<>>]

\* facts about the running scan: whether it began on empty stores, whether
\* it repeats a completed scan of an unchanged directory, whether the run
\* before it was interrupted, whether the drift guard has fired ("no",
\* "yes", or "orphan" when it fired with cur.orphan), whether a stat failed
NoRun == [fromEmpty |-> FALSE, rerun |-> FALSE, afterCrash |-> FALSE,
          drift |-> "no", statFail |-> FALSE]

\* facts about the last run of scan: how it ended ("none", "complete",
\* "exit", "crash"); for a completed scan of a directory not rewritten
\* since: clean (the guard did not fire), fresh (every file was stat-ed),
\* e2e (fresh, and begun on empty stores)
NoLast == [status |-> "none", clean |-> FALSE, fresh |-> FALSE,
           e2e |-> FALSE]

\* no query is printing its result
NoOut == [op |-> "none"]

Init ==
  /\ fs \in [Paths -> {[text |-> t, mtime |-> 0] : t \in Texts}]
  /\ fs["b.txt"].text = <<>>
  /\ fs["n.md"].text = <<"b">>
  /\ modelOk = FALSE
  /\ files = {}
  /\ chunks = {}
  /\ chunks_fts = {}
  /\ vsDisk = <<>>
  /\ vsMem = <<>>
  /\ pc = "idle"
  /\ queue = <<>>
  /\ cur = NoCur
  /\ run = NoRun
  /\ last = NoLast
  /\ maxEver = 0
  /\ out = NoOut

\* the files of directory.rglob("*") that scan hands to _process_file
Discovered == {p \in DOMAIN fs : Suffix(p) \in supported_extensions}

\* the orders in which rglob may list a set of files
Orders(S) ==
  {q \in [1..Cardinality(S) -> S] : \A i, j \in 1..Cardinality(S) :
                                        i # j => q[i] # q[j]}

\* the rewrites of files so far: each one moves one mtime on by one
Mods == fs["a.txt"].mtime + fs["b.txt"].mtime

\* file_path.stat(): st_size and st_mtime
st_size(p) == Len(fs[p].text)

st_mtime(p) == fs[p].mtime

\* cli init: the model and the tokenizer are installed; vs.save() writes
\* back the index it loaded
InitCommand ==
  /\ pc = "idle"
  /\ ~modelOk
  /\ modelOk' = TRUE
  /\ UNCHANGED <<fs, files, chunks, chunks_fts, vsDisk, vsMem, pc, queue,
                 cur, run, last, maxEver,
                 out>>

\* the environment rewrites a file with a supported extension: new text,
\* later mtime
Modify(p, t) ==
  /\ pc = "idle"
  /\ Mods < MaxMods
  /\ fs' = [fs EXCEPT ![p] = [text |-> t, mtime |-> @.mtime + 1]]
  /\ last' = [NoLast EXCEPT !.status = last.status]
  /\ UNCHANGED <<modelOk, files, chunks, chunks_fts, vsDisk, vsMem, pc,
                 queue, cur, run, maxEver,
                 out>>

\* scan, up to the loop over the directory: the index file is loaded
ScanBegin ==
  /\ pc = "idle"
  /\ pc' = "scan"
  /\ vsMem' = vsDisk
  /\ queue' \in Orders(Discovered)
  /\ cur' = NoCur
  /\ run' = [fromEmpty  |-> files = {} /\ chunks = {} /\ vsDisk = <<>>,
             rerun      |-> last.status = "complete" /\ last.fresh,
             afterCrash |-> last.status = "crash",
             drift      |-> "no",
             statFail   |-> FALSE]
  /\ last' = NoLast
  /\ UNCHANGED <<fs, modelOk, files, chunks, chunks_fts, vsDisk, maxEver,
                 out>>

\* _process_file, step 1 failing: the file is gone when it is stat-ed
StatFails ==
  /\ pc = "scan"
  /\ queue # <<>>
  /\ queue' = Tail(queue)
  /\ run' = [run EXCEPT !.statFail = TRUE]
  /\ UNCHANGED <<fs, modelOk, files, chunks, chunks_fts, vsDisk, vsMem, pc,
                 cur, last, maxEver,
                 out>>

\* the comparison with size and mtime swapped
IsUnchangedSwapped(existing, size, mtime) ==
  existing.file_size = mtime /\ existing.last_modified_time = size

\* _process_file, step 2: db_size == size and db_mtime == mtime
IsUnchanged(existing, size, mtime) ==
  existing.file_size = size /\ existing.last_modified_time = mtime

\* _process_file, steps 1 and 2: stat, look the path up, skip an unchanged
\* file, delete the record of a changed one
CheckFile ==
  /\ pc = "scan"
  /\ queue # <<>>
  /\ LET p == Head(queue)
         found == get_file_by_path(p)
     IN  IF found = {}
         THEN /\ pc' = "add_file"
              /\ cur' = [NoCur EXCEPT !.path = p, !.vs0 = vsMem]
              /\ UNCHANGED <<files, chunks, chunks_fts, queue>>
         ELSE LET existing == CHOOSE f \in found : TRUE
              IN  IF IsUnchanged(existing, st_size(p), st_mtime(p))
                  THEN /\ queue' = Tail(queue)
                       /\ UNCHANGED <<files, chunks, chunks_fts, pc, cur>>
                  ELSE /\ files' = files_after_delete(existing.id)
                       /\ chunks' = chunks_after_delete(existing.id)
                       /\ chunks_fts' = fts_after_delete(existing.id)
                       /\ pc' = "add_file"
                       /\ cur' = [NoCur EXCEPT !.path = p, !.vs0 = vsMem,
                                               !.old_id = existing.id]
                       /\ UNCHANGED queue
  /\ UNCHANGED <<fs, modelOk, vsDisk, vsMem, run, last, maxEver,
                 out>>

\* extractor._extract_text_from_pdf, _extract_text_from_docx: opening a
\* damaged document raises, and neither helper nor extract_text catches it
ExtractRaises(p) == Suffix(p) \in {".pdf", ".docx"} /\ fs[p].text = Damaged

\* extractor.extract_text: the text of a .pdf, .docx or .txt file, the
\* empty string for any other extension
extract_text(p) ==
  IF Suffix(p) \in {".pdf", ".docx", ".txt"} THEN fs[p].text ELSE <<>>

\* an embedder whose error skips the file
AfterEmbedSkipsFile(loaded) == IF loaded THEN "add_chunk" ELSE "scan"

\* _process_file, step 7: where the call goes after generate_embeddings;
\* the FileNotFoundError of a missing model becomes typer.Exit(1)
AfterEmbed(loaded) == IF loaded THEN "add_chunk" ELSE "exit"

\* the chunks _process_file makes of the file it is processing
ChunksOf(p) == chunk_text(extract_text(p), ChunkSize, ChunkOverlap)

\* _process_file, steps 3 to 7: hash, add_file, extract, chunk, embed
AddFile ==
  /\ pc = "add_file"
  /\ LET p == cur.path
         row == add_file_row(p, generate_file_hash(fs[p].text), st_size(p),
                             st_mtime(p))
         to == IF ExtractRaises(p) THEN "raise"
               ELSE IF extract_text(p) = <<>> \/ ChunksOf(p) = <<>>
               THEN "scan"
               ELSE AfterEmbed(modelOk)
     IN  /\ files' = files \cup {row}
         /\ CASE to = "scan" ->
                 \* "Skipping (no text extracted)" / "(no chunks generated)"
                 /\ pc' = "scan"
                 /\ queue' = Tail(queue)
                 /\ cur' = NoCur
                 /\ UNCHANGED <<vsMem, run, last>>
              [] to = "exit" ->
                 \* FileNotFoundError from EmbeddingModel(): typer.Exit(1)
                 /\ pc' = "idle"
                 /\ queue' = <<>>
                 /\ cur' = NoCur
                 /\ vsMem' = <<>>
                 /\ run' = NoRun
                 /\ last' = [NoLast EXCEPT !.status = "exit"]
              [] to = "raise" ->
                 \* the exception of the extractor ends the process
                 /\ pc' = "idle"
                 /\ queue' = <<>>
                 /\ cur' = NoCur
                 /\ vsMem' = <<>>
                 /\ run' = NoRun
                 /\ last' = [NoLast EXCEPT !.status = "crash"]
              [] OTHER ->
                 /\ pc' = "add_chunk"
                 /\ cur' = [cur EXCEPT !.file_id = row.id, !.i = 0,
                              !.orphan = \E c \in chunks :
                                            c.id > index_ntotal(vsMem)]
                 /\ UNCHANGED <<queue, vsMem, run, last>>
  /\ UNCHANGED <<fs, modelOk, chunks, chunks_fts, vsDisk, maxEver,
                 out>>

\* a guard that only notices an index that is too long
OutOfSyncTooLongOnly(ntotal, chunk_id) == ntotal > chunk_id - 1

\* _process_file, step 8: vs.index.ntotal != chunk_id - 1
OutOfSync(ntotal, chunk_id) == ntotal # chunk_id - 1

\* a loop that reports the mismatch and goes on
AfterChunkNoReturn(mismatch, isLast) ==
  IF isLast THEN "vs_add" ELSE "add_chunk"

\* where the loop of step 8 goes after the check of one chunk: return on a
\* mismatch, vs.add after the last chunk, the next chunk otherwise
AfterChunk(mismatch, isLast) ==
  IF mismatch THEN "scan" ELSE IF isLast THEN "vs_add" ELSE "add_chunk"

\* _process_file, step 8, one iteration of the loop: add_chunk, then the
\* check of the index size
AddChunk ==
  /\ pc = "add_chunk"
  /\ LET cs == ChunksOf(cur.path)
         row == add_chunk_row(cur.file_id, cur.i, cs[cur.i + 1])
         mismatch == OutOfSync(index_ntotal(vsMem), row.id)
         to == AfterChunk(mismatch, cur.i + 1 = Len(cs))
     IN  /\ chunks' = chunks \cup {row}
         /\ chunks_fts' = chunks_fts \cup
                            {[rowid |-> row.id, content |-> row.content]}
         /\ maxEver' = IF row.id > maxEver THEN row.id ELSE maxEver
         /\ pc' = to
         /\ run' = IF ~mismatch THEN run
                   ELSE [run EXCEPT !.drift = IF cur.orphan \/ @ = "orphan"
                                              THEN "orphan" ELSE "yes"]
         /\ IF to = "scan"
            THEN /\ queue' = Tail(queue)
                 /\ cur' = NoCur
            ELSE /\ cur' = [cur EXCEPT !.i = cur.i + 1]
                 /\ UNCHANGED queue
  /\ UNCHANGED <<fs, modelOk, files, vsDisk, vsMem, last,
                 out>>

\* _process_file, after the loop: vs.add(embeddings)
VsAdd ==
  /\ pc = "vs_add"
  /\ vsMem' = vs_add(vsMem, generate_embeddings(ChunksOf(cur.path)))
  /\ pc' = "scan"
  /\ queue' = Tail(queue)
  /\ cur' = NoCur
  /\ UNCHANGED <<fs, modelOk, files, chunks, chunks_fts, vsDisk, run, last,
                 maxEver,
                 out>>

\* scan, after the loop: vs.save()
ScanEnd ==
  /\ pc = "scan"
  /\ queue = <<>>
  /\ vsDisk' = vsMem
  /\ vsMem' = <<>>
  /\ pc' = "idle"
  /\ cur' = NoCur
  /\ run' = NoRun
  /\ last' = [status |-> "complete", clean |-> run.drift = "no",
              fresh |-> ~run.statFail,
              e2e |-> run.fromEmpty /\ ~run.statFail]
  /\ UNCHANGED <<fs, modelOk, files, chunks, chunks_fts, queue, maxEver,
                 out>>

\* the process is interrupted during a scan: what was committed to SQLite
\* stays, the index in memory is lost
Crash ==
  /\ pc \in {"scan", "add_file", "add_chunk", "vs_add"}
  /\ pc' = "idle"
  /\ queue' = <<>>
  /\ cur' = NoCur
  /\ vsMem' = <<>>
  /\ run' = NoRun
  /\ last' = [NoLast EXCEPT !.status = "crash"]
  /\ UNCHANGED <<fs, modelOk, files, chunks, chunks_fts, vsDisk, maxEver,
                 out>>

\* _process_file, step 1 failing with an error other than
\* FileNotFoundError (PermissionError: the file cannot be accessed): the
\* except clause does not catch it and the process ends
StatDenied ==
  /\ pc = "scan"
  /\ queue # <<>>
  /\ pc' = "idle"
  /\ queue' = <<>>
  /\ cur' = NoCur
  /\ vsMem' = <<>>
  /\ run' = NoRun
  /\ last' = [NoLast EXCEPT !.status = "crash"]
  /\ UNCHANGED <<fs, modelOk, files, chunks, chunks_fts, vsDisk, maxEver,
                 out>>

\* the commands init and scan, and the rewrites of files between scans
Pipeline ==
  \/ InitCommand
  \/ \E p \in SupportedPaths, t \in Texts : Modify(p, t)
  \/ ScanBegin
  \/ CheckFile
  \/ AddFile
  \/ AddChunk
  \/ VsAdd
  \/ ScanEnd

Next ==
  \/ Pipeline
  \/ StatFails
  \/ Crash

Spec == Init /\ [][Next]_vars

\* scans that are never interrupted
NextScans ==
  \/ Pipeline
  \/ StatFails

SpecScans == Init /\ [][NextScans]_vars

\* a directory that also holds a document, damaged or not
InitDocs ==
  /\ fs \in [Paths \cup DocPaths -> {[text |-> t, mtime |-> 0] :
                                        t \in Texts \cup {Damaged}}]
  /\ fs["a.txt"].text \in Texts
  /\ fs["b.txt"].text = <<>>
  /\ fs["n.md"].text = <<"b">>
  /\ fs["c.pdf"].text \in {Damaged, <<"b">>}
  /\ modelOk = FALSE
  /\ files = {}
  /\ chunks = {}
  /\ chunks_fts = {}
  /\ vsDisk = <<>>
  /\ vsMem = <<>>
  /\ pc = "idle"
  /\ queue = <<>>
  /\ cur = NoCur
  /\ run = NoRun
  /\ last = NoLast
  /\ maxEver = 0
  /\ out = NoOut

\* scans of that directory, with the failures of stat
NextDocs ==
  \/ InitCommand
  \/ ScanBegin
  \/ CheckFile
  \/ AddFile
  \/ AddChunk
  \/ VsAdd
  \/ ScanEnd
  \/ StatFails
  \/ StatDenied

SpecDocs == InitDocs /\ [][NextDocs]_vars

(* ------------------------------ queries ------------------------------ *)

\* top_k of the search command ranges over 1..MaxTopK
MaxTopK == 2

\* number of semantic candidates handed to calculate_hybrid_scores
MaxSem == 2

\* similarity scores, scaled by 100: cosine similarities lie in [-1, 1]
Scores == {-20, 60, 73}

\* file_results[...]["max_score"] += 0.1, scaled by 100
KeywordBoost == 10

\* vs.search asks for top_k * 2 candidates, search_chunks_fts for as many
FanOut == 2

\* the query strings: one word each
Queries == {<<"a">>, <<"b">>}

\* the elements of a finite set of integers in ascending order
RECURSIVE Ascending(_)
Ascending(S) ==
  IF S = {} THEN <<>>
  ELSE LET m == CHOOSE x \in S : \A y \in S : x <= y
       IN  <<m>> \o Ascending(S \ {m})

\* the elements of a sequence
Range(seq) == {seq[i] : i \in 1..Len(seq)}

\* the candidates cands (0-based positions) in the order of a similarity
\* search: highest score first, at most k of them
RECURSIVE Nearest(_, _, _)
Nearest(score, cands, k) ==
  IF k = 0 \/ cands = {} THEN <<>>
  ELSE LET best == CHOOSE p \in cands : \A r \in cands :
                      \/ score[p] > score[r]
                      \/ score[p] = score[r] /\ p <= r
       IN  <<[pos |-> best, score |-> score[best]]>>
             \o Nearest(score, cands \ {best}, k - 1)

\* VectorStore.search(query_embedding, k): the k nearest positions with
\* their similarity, most similar first; sim gives the inner product of
\* the query's embedding with each stored vector
vs_search(index, sim, k) ==
  Nearest([p \in 0..(Len(index) - 1) |-> sim[index[p + 1]]],
          0..(Len(index) - 1), k)

\* repository.search_chunks_fts(query, limit): the rowids of chunks_fts
\* whose content has the query's token, at most limit of them (taken in
\* rowid order; the bm25 order of ORDER BY rank is not modelled)
search_chunks_fts(query, limit) ==
  LET hits == Ascending({r.rowid : r \in
                 {x \in chunks_fts : query \in Range(Split(x.content, <<>>))}})
  IN  SubSeq(hits, 1, Min(limit, Len(hits)))

\* repository.get_chunk_details_by_ids: SELECT ... WHERE id IN (...), the
\* rows of the ids that exist, in the order of the table (ascending rowid)
get_chunk_details_by_ids(chunk_ids) ==
  LET ids == Ascending({c.id : c \in
                          {x \in chunks : x.id \in Range(chunk_ids)}})
  IN  [i \in 1..Len(ids) |-> CHOOSE c \in chunks : c.id = ids[i]]

\* repository.get_file_path_by_id
get_file_path_by_id(file_id) ==
  IF \E f \in files : f.id = file_id
  THEN (CHOOSE f \in files : f.id = file_id).file_path
  ELSE "None"

\* a defaultdict keyed by file id, as the sequence of its entries in
\* insertion order
HasKey(d, file_id) == \E i \in 1..Len(d) : d[i].file_id = file_id

\* d[file_id], the entry made on first access included
Touch(d, file_id, default) ==
  IF HasKey(d, file_id) THEN d
  ELSE Append(d, [default EXCEPT !.file_id = file_id])

IndexOf(d, file_id) == CHOOSE i \in 1..Len(d) : d[i].file_id = file_id

\* a ranking left in the order of insertion
SortedDescUnsorted(d) == d

\* sorted(d.items(), key=score, reverse=True): stable, descending
RECURSIVE SortedDesc(_)
SortedDesc(d) ==
  IF d = <<>> THEN <<>>
  ELSE LET rest == SortedDesc(Tail(d))
           x == Head(d)
           before == SelectSeq(rest, LAMBDA y : y.score > x.score)
           after == SelectSeq(rest, LAMBDA y : y.score <= x.score)
       IN  before \o <<x>> \o after

(* cli.search, step 3: merge and rank *)

SearchDefault == [file_id |-> 0, score |-> 0, keyword_hit |-> FALSE,
                  best_chunk_id |-> -1]

\* the loop over the semantic candidates: the i-th row that came back gets
\* the i-th distance
RECURSIVE SearchSemantic(_, _, _, _)
SearchSemantic(d, rows, distances, i) ==
  IF i > Len(rows) THEN d
  ELSE LET t == Touch(d, rows[i].file_id, SearchDefault)
           j == IndexOf(t, rows[i].file_id)
           u == IF distances[i] > t[j].score
                THEN [t EXCEPT ![j].score = distances[i],
                               ![j].best_chunk_id = rows[i].id]
                ELSE t
       IN  SearchSemantic(u, rows, distances, i + 1)

\* the loop over the keyword candidates
RECURSIVE SearchKeyword(_, _, _)
SearchKeyword(d, rows, i) ==
  IF i > Len(rows) THEN d
  ELSE LET t == Touch(d, rows[i].file_id, SearchDefault)
           j == IndexOf(t, rows[i].file_id)
           u == [t EXCEPT ![j].keyword_hit = TRUE,
                          ![j].best_chunk_id =
                             IF t[j].score = 0 THEN rows[i].id ELSE @]
       IN  SearchKeyword(u, rows, i + 1)

\* the boost for keyword hits
SearchBoost(d) ==
  [i \in 1..Len(d) |->
     IF d[i].keyword_hit THEN [d[i] EXCEPT !.score = @ + KeywordBoost]
     ELSE d[i]]

\* sem: the candidates of vs.search; kw: the ids of search_chunks_fts
SearchRank(sem, kw) ==
  LET distances == [i \in 1..Len(sem) |-> sem[i].score]
      ids == [i \in 1..Len(sem) |-> sem[i].pos + 1]
      d1 == IF Len(sem) > 0
            THEN SearchSemantic(<<>>, get_chunk_details_by_ids(ids),
                                distances, 1)
            ELSE <<>>
      d2 == IF kw # <<>>
            THEN SearchKeyword(d1, get_chunk_details_by_ids(kw), 1)
            ELSE d1
  IN  SortedDesc(SearchBoost(d2))

\* cli.search, step 4: the first top_k files whose path is found
SearchDisplay(ranked, top_k) ==
  LET shown == SubSeq(ranked, 1, Min(top_k, Len(ranked)))
      found == SelectSeq(shown,
                 LAMBDA r : get_file_path_by_id(r.file_id) # "None")
  IN  [i \in 1..Len(found) |->
         [file_id |-> found[i].file_id,
          path |-> get_file_path_by_id(found[i].file_id),
          score |-> found[i].score,
          keyword_hit |-> found[i].keyword_hit]]

(* repository.calculate_hybrid_scores *)

HybridDefault == [file_id |-> 0, score |-> 0, is_keyword_match |-> FALSE]

RECURSIVE HybridSemantic(_, _, _, _)
HybridSemantic(d, rows, distances, i) ==
  IF i > Len(rows) THEN d
  ELSE LET t == Touch(d, rows[i].file_id, HybridDefault)
           j == IndexOf(t, rows[i].file_id)
           u == IF distances[i] > t[j].score
                THEN [t EXCEPT ![j].score = distances[i]]
                ELSE t
       IN  HybridSemantic(u, rows, distances, i + 1)

\* the loop over the keyword rows: only files already in file_scores, and
\* the boost once per row
RECURSIVE HybridKeyword(_, _, _)
HybridKeyword(d, rows, i) ==
  IF i > Len(rows) THEN d
  ELSE LET u == IF HasKey(d, rows[i].file_id)
                THEN LET j == IndexOf(d, rows[i].file_id)
                     IN  [d EXCEPT ![j].is_keyword_match = TRUE,
                                   ![j].score = @ + KeywordBoost]
                ELSE d
       IN  HybridKeyword(u, rows, i + 1)

calculate_hybrid_scores(sem, kw) ==
  LET distances == [i \in 1..Len(sem) |-> sem[i].score]
      ids == [i \in 1..Len(sem) |-> sem[i].pos + 1]
      d1 == IF Len(sem) > 0
            THEN HybridSemantic(<<>>, get_chunk_details_by_ids(ids),
                                distances, 1)
            ELSE <<>>
      d2 == IF kw # <<>>
            THEN HybridKeyword(d1, get_chunk_details_by_ids(kw), 1)
            ELSE d1
  IN  SortedDesc(d2)

\* the vectors of the saved index
Stored == Range(vsDisk)

\* a database set up anew at every start
initialize_database_anew(rows) == {}

\* database.initialize_database on an existing database: CREATE TABLE,
\* CREATE VIRTUAL TABLE and CREATE TRIGGER ... IF NOT EXISTS leave the
\* rows of a table as they are
initialize_database(rows) == rows

\* a search that treats an empty ranking as a failure
SearchFailsOnEmpty(loaded, ranked) == ~loaded \/ ranked = <<>>

\* search ends with typer.Exit(1) only when the model or the index cannot
\* be loaded; with no file to show it prints "No relevant files found."
\* and returns
SearchFails(loaded, ranked) == ~loaded

\* the search command: query, its similarity to each stored vector, top_k
Search(query, sim, top_k) ==
  /\ pc = "idle"
  /\ pc' = "queried"
  /\ IF ~modelOk
     THEN \* FileNotFoundError: "Please run 'filemind init' first", Exit(1)
          out' = [op |-> "search", error |-> TRUE, top_k |-> top_k,
                  sem |-> <<>>, kw |-> <<>>, ranked |-> <<>>, res |-> <<>>]
     ELSE LET sem == vs_search(vsDisk, sim, top_k * FanOut)
              kw == search_chunks_fts(query, top_k * FanOut)
              ranked == SearchRank(sem, kw)
          IN  out' = [op |-> "search",
                      error |-> SearchFails(modelOk, ranked),
                      top_k |-> top_k,
                      sem |-> sem, kw |-> kw, ranked |-> ranked,
                      res |-> SearchDisplay(ranked, top_k)]
  /\ files' = initialize_database(files)
  /\ chunks' = initialize_database(chunks)
  /\ chunks_fts' = initialize_database(chunks_fts)
  /\ UNCHANGED <<fs, modelOk, vsDisk, vsMem, queue, cur, run, last, maxEver>>

\* the positions a caller of calculate_hybrid_scores may pass: those of
\* the chunk ids in use, with or without a row
Positions == 0..(NextRowid(ChunkIds) - 2)

\* calculate_hybrid_scores on semantic candidates (a score for each of at
\* most MaxSem positions, most similar first) and keyword chunk ids
CalcHybrid(score, kwIds) ==
  /\ pc = "idle"
  /\ pc' = "queried"
  /\ LET sem == Nearest(score, DOMAIN score, MaxSem)
         kw == Ascending(kwIds)
     IN  out' = [op |-> "hybrid", error |-> FALSE, top_k |-> 0,
                 sem |-> sem, kw |-> kw,
                 ranked |-> calculate_hybrid_scores(sem, kw), res |-> <<>>]
  /\ UNCHANGED <<fs, modelOk, files, chunks, chunks_fts, vsDisk, vsMem,
                 queue, cur, run, last, maxEver>>

\* the query has printed its result and the command ends
QueryExit ==
  /\ pc = "queried"
  /\ pc' = "idle"
  /\ out' = NoOut
  /\ UNCHANGED <<fs, modelOk, files, chunks, chunks_fts, vsDisk, vsMem,
                 queue, cur, run, last, maxEver>>

\* the search command, run between scans
NextSearch ==
  \/ Pipeline
  \/ \E query \in Queries, sim \in [Stored -> Scores], top_k \in 1..MaxTopK :
        Search(query, sim, top_k)
  \/ QueryExit

SpecSearch == Init /\ [][NextSearch]_vars

\* calculate_hybrid_scores, called between scans
NextHybrid ==
  \/ Pipeline
  \/ \E S \in SUBSET Positions, kwIds \in SUBSET ChunkIds :
        /\ Cardinality(S) <= MaxSem
        /\ \E score \in [S -> Scores] : CalcHybrid(score, kwIds)
  \/ QueryExit

SpecHybrid == Init /\ [][NextHybrid]_vars

(* ------------------------------- rebuild ------------------------------ *)

\* repository.get_all_chunks_ordered: cursor.fetchall() on a cursor that
\* has executed no statement, which sqlite3 answers with no rows
get_all_chunks_ordered == <<>>

\* the caller reads all chunks
AllChunks ==
  /\ pc = "idle"
  /\ pc' = "queried"
  /\ out' = [op |-> "all_chunks", rows |-> get_all_chunks_ordered]
  /\ UNCHANGED <<fs, modelOk, files, chunks, chunks_fts, vsDisk, vsMem,
                 queue, cur, run, last, maxEver>>

\* the index rebuild() builds from the rows it read: their embeddings,
\* batch after batch in the order of the rows, appended to an empty index
rebuild(rows) ==
  vs_add(<<>>, generate_embeddings([i \in 1..Len(rows) |-> rows[i].content]))

\* rebuild(): reads get_all_chunks_ordered, embeds, replaces the saved
\* index; with no rows it writes an empty index
Rebuild ==
  /\ pc = "idle"
  /\ get_all_chunks_ordered = <<>> \/ modelOk
  /\ vsDisk' = rebuild(get_all_chunks_ordered)
  /\ pc' = "queried"
  /\ out' = [op |-> "rebuild"]
  /\ UNCHANGED <<fs, modelOk, files, chunks, chunks_fts, vsMem,
                 queue, cur, run, last, maxEver>>

\* scans, with rebuilds and reads of all chunks between them
NextRebuild ==
  \/ Pipeline
  \/ AllChunks
  \/ Rebuild
  \/ QueryExit

SpecRebuild == Init /\ [][NextRebuild]_vars

(* ----------------------------- duplicates ----------------------------- *)

\* the File records with hash file_hash
WithHash(file_hash) == {f \in files : f.file_hash = file_hash}

\* a grouping that keeps the hashes held by a single file
find_duplicate_hashes_all ==
  {[file_hash |-> h, count |-> Cardinality(WithHash(h))] :
     h \in {f.file_hash : f \in files}}

\* repository.find_duplicate_hashes: SELECT file_hash, COUNT(*) FROM files
\* GROUP BY file_hash HAVING COUNT(*) > 1
find_duplicate_hashes ==
  {[file_hash |-> h, count |-> Cardinality(WithHash(h))] :
     h \in {x \in {f.file_hash : f \in files} :
              Cardinality(WithHash(x)) > 1}}

\* repository.get_files_by_hash: (file_path, file_size,
\* last_modified_time) of the rows WHERE file_hash = ?
get_files_by_hash(file_hash) ==
  {[file_path |-> f.file_path, file_size |-> f.file_size,
    last_modified_time |-> f.last_modified_time] : f \in WithHash(file_hash)}

\* the duplicates command: find_duplicate_hashes, and get_files_by_hash
\* of the hashes in the table
Duplicates ==
  /\ pc = "idle"
  /\ pc' = "queried"
  /\ out' = [op |-> "duplicates",
             hashes |-> find_duplicate_hashes,
             listed |-> [h \in {f.file_hash : f \in files} |->
                           get_files_by_hash(h)]]
  /\ UNCHANGED <<fs, modelOk, files, chunks, chunks_fts, vsDisk, vsMem,
                 queue, cur, run, last, maxEver>>

\* the duplicates command, run between scans
NextDuplicates ==
  \/ Pipeline
  \/ Duplicates
  \/ QueryExit

SpecDuplicates == Init /\ [][NextDuplicates]_vars

(* ------------------------- chunk_text, step by step ------------------- *)

\* longest text and largest chunk_size of the calls of chunk_text
MaxTextLen == 4

MaxChunkSize == 3

\* the characters of the texts: a letter, a blank, a newline
Alphabet == {"a", " ", "\n"}

ChunkTexts == UNION {[1..n -> Alphabet] : n \in 0..MaxTextLen}

\* a loop that does not move the start position
ChunkAdvanceStuck(start, chunk_size, chunk_overlap) == start

\* start += chunk_size - chunk_overlap
ChunkAdvance(start, chunk_size, chunk_overlap) ==
  start + chunk_size - chunk_overlap

\* a call of chunk_text: nothing is yielded for an empty text; otherwise
\* start = 0 and the loop is entered.  iter counts the iterations, at keeps
\* the start position of every chunk yielded
ChunkTextCall(text, chunk_size, chunk_overlap) ==
  /\ pc = "idle"
  /\ pc' = IF text = <<>> THEN "queried" ELSE "chunking"
  /\ out' = [op |-> "chunk_text", text |-> text, chunk_size |-> chunk_size,
             chunk_overlap |-> chunk_overlap, start |-> 0, iter |-> 0,
             chunks |-> <<>>, at |-> <<>>]
  /\ UNCHANGED <<fs, modelOk, files, chunks, chunks_fts, vsDisk, vsMem,
                 queue, cur, run, last, maxEver>>

\* one iteration of the while loop
ChunkTextStep ==
  /\ pc = "chunking"
  /\ LET end == out.start + out.chunk_size
         chunk == Normalize(Slice(out.text, out.start, end))
         next == ChunkAdvance(out.start, out.chunk_size, out.chunk_overlap)
     IN  /\ out' = [out EXCEPT
                      !.chunks = IF chunk # <<>> THEN Append(@, chunk)
                                 ELSE @,
                      !.at = IF chunk # <<>> THEN Append(@, out.start)
                             ELSE @,
                      !.start = next,
                      !.iter = @ + 1]
         /\ pc' = IF next >= Len(out.text) THEN "queried" ELSE "chunking"
  /\ UNCHANGED <<fs, modelOk, files, chunks, chunks_fts, vsDisk, vsMem,
                 queue, cur, run, last, maxEver>>

\* calls of chunk_text with chunk_size > chunk_overlap >= 0
NextChunk ==
  \/ \E text \in ChunkTexts, chunk_size \in 1..MaxChunkSize :
       \E chunk_overlap \in 0..(chunk_size - 1) :
         ChunkTextCall(text, chunk_size, chunk_overlap)
  \/ ChunkTextStep
  \/ QueryExit

SpecChunk == Init /\ [][NextChunk]_vars

(* ------------------------------ the claims ---------------------------- *)

\* the size of the index the running command sees
IndexSize == IF pc = "idle" THEN index_ntotal(vsDisk) ELSE index_ntotal(vsMem)

\* C1: after a scan that completed with no file aborted by the drift
\* guard, every stored chunk whose id c is a position of the index
\* (c <= size) has, at position c-1, the embedding of its own content.
C1_Alignment ==
  (pc = "idle" /\ last.status = "complete" /\ last.clean) =>
     \A c \in chunks :
        c.id <= Len(vsDisk) => vsDisk[c.id] = Embed(c.content)

\* the directory of the end-to-end case: a supported file that yields
\* chunks, an empty supported file, a file with an unsupported extension
E2EDirectory(p, q) ==
  /\ p \in SupportedPaths /\ q \in SupportedPaths /\ p # q
  /\ ChunksOf(p) # <<>>
  /\ fs[q].text = <<>>
  /\ Paths \ SupportedPaths # {}

\* C2: a completed scan of the end-to-end directory, begun on empty
\* stores, leaves 2 File records, chunk rows 1..n with the n chunks of the
\* supported file in order, and an index of size n holding their vectors.
C2_EndToEnd ==
  \A p, q \in Paths :
     (pc = "idle" /\ last.e2e /\ E2EDirectory(p, q)) =>
        LET cs == ChunksOf(p)
        IN  /\ Cardinality(files) = 2
            /\ ChunkIds = 1..Len(cs)
            /\ \A c \in chunks : c.content = cs[c.id]
            /\ Len(vsDisk) = Len(cs)
            /\ \A i \in 1..Len(vsDisk) : i <= Len(cs) =>
                                          vsDisk[i] = Embed(cs[i])

\* C3: when the check of step 8 finds the index size different from
\* chunk_id - 1, the call returns without vs.add: the index is what it was
\* when the call began, and no row committed before is lost.
C3_DriftGuardSafety ==
  [][ (pc = "add_chunk" /\ chunks' # chunks
         /\ OutOfSync(index_ntotal(vsMem), add_chunk_id))
      => /\ pc' = "scan"
         /\ vsMem' = vsMem
         /\ vsMem' = cur.vs0
         /\ vsDisk' = vsDisk
         /\ files' = files
         /\ chunks \subseteq chunks'
         /\ chunks_fts \subseteq chunks_fts' ]_vars

\* the guard has fired in a scan whose index holds vectors
C3_Witness ==
  pc = "scan" /\ run.drift # "no" /\ Len(vsMem) > 0 /\ chunks # {}

\* C4: every id add_chunk returns is greater than every chunk id assigned
\* before, deleted ones included.
C4_IdsNeverReused ==
  [][ \A c \in chunks' \ chunks : c.id > maxEver ]_vars

\* C6: a scan that repeats a completed scan of an unchanged directory adds
\* and removes no File row and no Chunk row and leaves the index size as
\* it was.
C6_ScanIdempotent ==
  [][ (run.rerun \/ run'.rerun)
      => /\ files' = files
         /\ chunks' = chunks
         /\ chunks_fts' = chunks_fts
         /\ IndexSize' = IndexSize
         /\ Len(vsDisk') = Len(vsDisk) ]_vars

\* a repeated scan has gone through the whole directory, after a first
\* scan that left chunk rows without vectors (the guard had fired)
C6_Witness ==
  /\ pc = "scan" /\ run.rerun /\ queue = <<>>
  /\ chunks # {} /\ Len(vsMem) < Cardinality(chunks)

\* C7: re-indexing a changed file removes the chunk rows of the old record
\* and inserts a File record for the same path whose id differs from the
\* old record's id.
C7_ReindexNewFileId ==
  [][ (pc = "add_file" /\ cur.old_id # 0 /\ files' # files)
      => /\ \A c \in chunks : c.file_id # cur.old_id
         /\ \E f \in files' \ files :
               f.file_path = cur.path /\ f.id # cur.old_id ]_vars

\* C8: when _process_file reaches step 8 while some stored chunk has an id
\* greater than the size of the index, it never reaches vs.add: the index
\* stays what it was when the call began.
C8_CrashDetected ==
  (pc \in {"add_chunk", "vs_add"} /\ cur.orphan) =>
     (pc # "vs_add" /\ vsMem = cur.vs0)

\* after an interrupted run, the guard has fired for a file while a chunk
\* of an earlier, single-chunk file had no vector
C8_Witness ==
  /\ pc = "scan" /\ run.afterCrash /\ run.drift = "orphan"
  /\ \A c \in chunks : c.chunk_index = 0

\* the semantic candidates of the last query whose chunk p+1 is a row of
\* file file_id
CandidatesOf(file_id) ==
  {j \in 1..Len(out.sem) :
     \E c \in chunks : c.id = out.sem[j].pos + 1 /\ c.file_id = file_id}

\* the keyword candidates of the last query that are rows of file file_id
KeywordsOf(file_id) ==
  {j \in 1..Len(out.kw) :
     \E c \in chunks : c.id = out.kw[j] /\ c.file_id = file_id}

\* the highest similarity among the file's semantic candidates
TopSimilarity(file_id) ==
  MaxOf({out.sem[j].score : j \in CandidatesOf(file_id)})

\* C5: every file in the result of search has as score the highest
\* similarity among the candidates (p, s) whose chunk p+1 is its own, 0 if
\* it has none, plus the boost exactly when one of its chunks is a keyword
\* candidate.
C5_PerFileScore ==
  (out.op = "search" /\ ~out.error) =>
     \A i \in 1..Len(out.res) :
        LET r == out.res[i]
            base == IF CandidatesOf(r.file_id) = {} THEN 0
                    ELSE TopSimilarity(r.file_id)
            hit == KeywordsOf(r.file_id) # {}
        IN  /\ r.keyword_hit = hit
            /\ r.score = base + (IF hit THEN KeywordBoost ELSE 0)

\* the same, for queries in which no similarity is negative
C5_PerFileScoreNonNegative ==
  (out.op = "search" /\ \A j \in 1..Len(out.sem) : out.sem[j].score >= 0)
     => C5_PerFileScore

\* C9: a file with a keyword candidate chunk and no semantic candidate
\* chunk is in the list calculate_hybrid_scores returns, with score 0.1
\* and is_keyword_match true.
C9_KeywordOnly ==
  out.op = "hybrid" =>
     \A f \in files :
        (KeywordsOf(f.id) # {} /\ CandidatesOf(f.id) = {}) =>
           \E i \in 1..Len(out.ranked) :
              /\ out.ranked[i].file_id = f.id
              /\ out.ranked[i].score = KeywordBoost
              /\ out.ranked[i].is_keyword_match

\* C10: a file whose chunk is the one semantic candidate, with similarity
\* s > 0, and which has keyword candidate chunks, however many, gets from
\* calculate_hybrid_scores the score s + 0.1.
C10_BoostOnce ==
  (out.op = "hybrid" /\ Len(out.sem) = 1 /\ out.sem[1].score > 0) =>
     \A f \in files :
        (CandidatesOf(f.id) # {} /\ KeywordsOf(f.id) # {}) =>
           \E i \in 1..Len(out.ranked) :
              /\ out.ranked[i].file_id = f.id
              /\ out.ranked[i].score = out.sem[1].score + KeywordBoost

\* C11: after rebuild() the index has as many vectors as there are chunk
\* rows, and every chunk c has the embedding of its content at position
\* c-1; with no chunk rows the index is empty.
C11_RebuildCorrect ==
  out.op = "rebuild" =>
     /\ index_ntotal(vsDisk) = Cardinality(chunks)
     /\ \A c \in chunks :
           c.id <= index_ntotal(vsDisk) /\ vsDisk[c.id] = Embed(c.content)

\* C12: get_all_chunks_ordered returns one (id, content) pair for every
\* chunk row, in strictly ascending order of id.
C12_AllChunksOrdered ==
  out.op = "all_chunks" =>
     /\ Len(out.rows) = Cardinality(chunks)
     /\ \A c \in chunks : \E i \in 1..Len(out.rows) :
           out.rows[i].id = c.id /\ out.rows[i].content = c.content
     /\ \A i, j \in 1..Len(out.rows) :
           i < j => out.rows[i].id < out.rows[j].id

\* C13: when the embedder raises the model-not-found error for a file the
\* scan ends there with exit status 1: no later file is processed, no
\* chunk row is written and no vector is added or saved.
C13_MissingModelFatal ==
  [][ (pc = "add_file" /\ files' # files /\ ~modelOk
         /\ ~ExtractRaises(cur.path) /\ ChunksOf(cur.path) # <<>>)
      => /\ pc' = "idle"
         /\ last'.status = "exit"
         /\ queue' = <<>>
         /\ chunks' = chunks
         /\ chunks_fts' = chunks_fts
         /\ vsDisk' = vsDisk
         /\ vsMem' = <<>> ]_vars

\* a scan has ended with exit status 1 while a file with text had not
\* been processed
C13_Witness ==
  /\ pc = "idle" /\ last.status = "exit" /\ chunks = {}
  /\ \E p \in SupportedPaths :
        get_file_by_path(p) = {} /\ ChunksOf(p) # <<>>

\* C14: when the extraction of a supported file fails, the file is
\* skipped: no chunk row and no vector for it, and the scan goes on to the
\* next file (and so to saving the index).
C14_ExtractionFailureSkips ==
  [][ (pc = "add_file" /\ files' # files /\ ExtractRaises(cur.path))
      => /\ pc' = "scan"
         /\ queue' = Tail(queue)
         /\ chunks' = chunks
         /\ vsMem' = vsMem ]_vars

\* C15: a file that is inaccessible when it is stat-ed is skipped: the
\* tables and the index are unchanged and the scan goes on to the next
\* file.
C15_StatFailureSkips ==
  [][ (StatFails \/ StatDenied)
      => /\ pc' = "scan"
         /\ queue' = Tail(queue)
         /\ files' = files
         /\ chunks' = chunks
         /\ vsMem' = vsMem
         /\ vsDisk' = vsDisk ]_vars

\* the files the last search returned
Returned == {out.res[i].file_id : i \in 1..Len(out.res)}

\* C16: search returns at most top_k files, in non-increasing order of
\* final score, and no file it omits has a higher final score than a file
\* it returns.
C16_SearchOrdering ==
  (out.op = "search" /\ ~out.error) =>
     /\ Len(out.res) <= out.top_k
     /\ \A i, j \in 1..Len(out.res) :
           i < j => out.res[i].score >= out.res[j].score
     /\ \A k \in 1..Len(out.ranked) :
           out.ranked[k].file_id \notin Returned =>
              \A i \in 1..Len(out.res) :
                 out.ranked[k].score <= out.res[i].score

\* a search has left out a file whose score is lower than the returned
\* one's
C16_Witness ==
  /\ out.op = "search" /\ ~out.error
  /\ Len(out.res) = 1
  /\ \E k \in 1..Len(out.ranked) :
        /\ out.ranked[k].file_id \notin Returned
        /\ out.ranked[k].score < out.res[1].score

\* C17: the search command leaves the File rows, the Chunk rows, the
\* full-text index and the vector index, in memory and saved, unchanged.
C17_SearchReadOnly ==
  [][ (out.op # "search" /\ out'.op = "search")
      => /\ files' = files
         /\ chunks' = chunks
         /\ chunks_fts' = chunks_fts
         /\ vsDisk' = vsDisk
         /\ vsMem' = vsMem ]_vars

\* a search has returned files from stores that hold rows and vectors
C17_Witness ==
  /\ out.op = "search" /\ ~out.error /\ Len(out.res) = 2
  /\ files # {} /\ chunks # {} /\ chunks_fts # {} /\ vsDisk # <<>>

\* the row get_files_by_hash gives for a File record
Listing(f) ==
  [file_path |-> f.file_path, file_size |-> f.file_size,
   last_modified_time |-> f.last_modified_time]

\* C18: File records with the same hash and different paths are all in
\* get_files_by_hash(hash), and find_duplicate_hashes has that hash with
\* their number as count; a hash held by exactly one File record is not in
\* find_duplicate_hashes.
C18_DuplicateDetection ==
  out.op = "duplicates" =>
     \A f \in files :
        LET same == {g \in files : g.file_hash = f.file_hash}
        IN  /\ Cardinality(same) > 1 =>
                 /\ \A g \in same : Listing(g) \in out.listed[f.file_hash]
                 /\ [file_hash |-> f.file_hash,
                     count |-> Cardinality(same)] \in out.hashes
            /\ Cardinality(same) = 1 =>
                 \A r \in out.hashes : r.file_hash # f.file_hash

\* the command has found two files with one hash after a file was
\* re-indexed
C18_Witness ==
  /\ out.op = "duplicates" /\ Mods > 0 /\ Cardinality(files) = 2
  /\ out.hashes # {}

\* C19: the files table never holds two File records with one path, also
\* after an interruption between two store operations of _process_file.
C19_OneRecordPerPath ==
  \A f, g \in files : f.file_path = g.file_path => f = g

\* after an interrupted run, a changed file's old record has been deleted
\* and its new record inserted
C19_Witness ==
  /\ pc = "add_chunk" /\ cur.old_id # 0 /\ run.afterCrash
  /\ get_file_by_path(cur.path) # {}

\* the File records a chunk row belongs to
OwnersOf(c) == {f \in files : f.id = c.file_id}

\* C20: every chunk row's file_id is the id of exactly one File record,
\* and a delete_file_and_chunks(file_id) removes that File record and the
\* chunk rows with that file_id and no other row.
C20_NoOrphanChunks ==
  [][ /\ \A c \in chunks' : Cardinality(OwnersOf(c)') = 1
      /\ (pc = "scan" /\ files' # files) =>
            \E file_id \in FileIds :
               /\ files' = {f \in files : f.id # file_id}
               /\ chunks' = {c \in chunks : c.file_id # file_id}
               /\ chunks_fts' = {r \in chunks_fts :
                                    r.rowid \in {c.id : c \in chunks'}} ]_vars

\* the record of a changed file that had chunk rows has been deleted
\* while another file keeps its chunk rows
C20_Witness ==
  /\ pc = "add_file" /\ cur.old_id # 0 /\ chunks # {}
  /\ \E i \in 1..maxEver : i \notin ChunkIds

\* C21: the full-text index holds exactly one row per chunk row, with the
\* chunk's id as rowid and the chunk's content.
C21_FtsInSync ==
  chunks_fts = {[rowid |-> c.id, content |-> c.content] : c \in chunks}

\* the chunk rows of a changed file have been deleted while the full-text
\* index still holds rows of another file
C21_Witness ==
  /\ pc = "add_file" /\ cur.old_id # 0
  /\ chunks_fts # {} /\ Cardinality(chunks_fts) < maxEver

C23_ReindexPassesGuard ==
  [][(/\ pc = "add_chunk" /\ cur.old_id # 0 /\ cur.i = 0
      /\ index_ntotal(vsMem) = maxEver
      /\ chunks' # chunks)
     => pc' \in {"add_chunk", "vs_add"}]_vars

\* the chunk rows the call of _process_file for cur.path has to insert
RowsDue ==
  {[file_id |-> cur.file_id, chunk_index |-> k - 1,
    content |-> ChunksOf(cur.path)[k]] : k \in 1..Len(ChunksOf(cur.path))}

\* C24: when _process_file returns from step 8, with or without the drift
\* guard having fired, the file has exactly one chunk row per chunk of its
\* text, with chunk_index 0..n-1 and ids ascending in that order.
C24_ChunkRowsComplete ==
  [][(pc \in {"add_chunk", "vs_add"} /\ pc' = "scan") =>
       LET rows == {c \in chunks' : c.file_id = cur.file_id}
       IN  /\ {[file_id |-> c.file_id, chunk_index |-> c.chunk_index,
                content |-> c.content] : c \in rows} = RowsDue
           /\ Cardinality(rows) = Cardinality(RowsDue)
           /\ \A c, d \in rows :
                 c.chunk_index < d.chunk_index => c.id < d.id]_vars

\* C25: with the model installed, every file that scan is about to skip as
\* unchanged has a chunk row for each chunk of its text.
C25_RetryWorks ==
  (pc = "scan" /\ modelOk /\ queue # <<>>) =>
    \A f \in get_file_by_path(Head(queue)) :
      IsUnchanged(f, st_size(Head(queue)), st_mtime(Head(queue))) =>
        \A k \in 1..Len(ChunksOf(Head(queue))) :
          \E c \in chunks : /\ c.file_id = f.id
                            /\ c.chunk_index = k - 1
                            /\ c.content = ChunksOf(Head(queue))[k]

\* C26: a saved vector computed from a content that no stored chunk has any
\* more sits at a position whose chunk id belongs to no stored chunk.
C26_NoStaleAttribution ==
  \A p \in 1..index_ntotal(vsDisk) :
    (\A c \in chunks : Embed(c.content) # vsDisk[p]) =>
       (\A c \in chunks : c.id # p)

\* C27: on the same candidates and the same store, the merge-and-rank step
\* of search and calculate_hybrid_scores yield the same files, each with
\* the same final score and the same keyword-match flag.
C27_FusionsAgree ==
  out.op = "hybrid" =>
    LET merged == SearchRank(out.sem, out.kw)
    IN  {[file_id |-> out.ranked[i].file_id, score |-> out.ranked[i].score,
          keyword |-> out.ranked[i].is_keyword_match] :
            i \in 1..Len(out.ranked)}
        = {[file_id |-> merged[i].file_id, score |-> merged[i].score,
            keyword |-> merged[i].keyword_hit] : i \in 1..Len(merged)}

\* a chunk without leading, trailing or doubled whitespace, whose only
\* whitespace character is the blank
IsNormalized(c) ==
  /\ c # <<>>
  /\ ~IsSpace(c[1]) /\ ~IsSpace(c[Len(c)])
  /\ \A k \in 1..Len(c) : IsSpace(c[k]) => c[k] = " "
  /\ \A k \in 1..(Len(c) - 1) : ~(IsSpace(c[k]) /\ IsSpace(c[k + 1]))

\* C28: for chunk_size > chunk_overlap >= 0 the loop of chunk_text ends
\* within len(text) iterations; every chunk yielded is non-empty and
\* whitespace-normalized; the chunks come from strictly increasing
\* positions of the text; and the sequence yielded is the one function of
\* the arguments, so that two calls on the same arguments yield the same.
C28_ChunkText ==
  out.op = "chunk_text" =>
    /\ out.iter <= Len(out.text)
    /\ pc = "chunking" => out.start < Len(out.text)
    /\ \A i \in 1..Len(out.chunks) : IsNormalized(out.chunks[i])
    /\ Len(out.at) = Len(out.chunks)
    /\ \A i \in 1..Len(out.at) :
         /\ out.chunks[i] =
              Normalize(Slice(out.text, out.at[i],
                              out.at[i] + out.chunk_size))
         /\ \A j \in 1..Len(out.at) : i < j => out.at[i] < out.at[j]
    /\ pc = "queried" =>
         out.chunks = chunk_text(out.text, out.chunk_size, out.chunk_overlap)

\* a call has ended after several iterations, having dropped an empty
\* chunk and yielded two chunks, one of them with its whitespace rewritten
C28_Witness ==
  /\ out.op = "chunk_text" /\ pc = "queried"
  /\ out.iter > Len(out.chunks) /\ Len(out.chunks) = 2
  /\ \E i \in 1..2 :
       out.chunks[i] # Slice(out.text, out.at[i], out.at[i] + out.chunk_size)

====
